---- MODULE Spec2Model ----
(***************************************************************************)
(* The search loops of nnabla_nas: Searcher.run with its warmup phase, the *)
(* DARTS and ProxylessNAS weight-update and architecture-update steps of   *)
(* runner/search.py, and the ProxylessNAS steps of runner/searcher/pnas.py. *)
(* XPLayer of contrib/classification/ofa_xception/modules.py is modelled   *)
(* apart, under SpecXP.                                                    *)
(*                                                                         *)
(* The tensor engine is outside the repository.  Of it the model keeps:    *)
(* one scalar for the network weights and NumArch scalars for the          *)
(* architecture parameters, each with a gradient buffer; a solver that,    *)
(* on update(), subtracts the gradient buffer from every parameter it was  *)
(* bound to by set_parameters (SGD with rate 1) and, on zero_grad(),       *)
(* clears the buffers of those parameters; backward() adding the           *)
(* micro-batch's gradient into the buffers.  Real numbers are exact        *)
(* rationals <<numerator, denominator>>.                                   *)
(***************************************************************************)
EXTENDS Integers, Sequences, FiniteSets, TLC

(***************************************************************************)
(* Bounds of the model.                                                    *)
(***************************************************************************)
MaxWarmup == 1
MaxEpoch == 2
MaxOneEpoch == 2
MaxBs == 2
MaxProcs == 2
MaxPrintFrequency == 2
MaxBatch == 4
MaxChannels == 2
MaxExpand == 2
MaxReps == 3
MaxGenotype == 5
NumArch == 1

(***************************************************************************)
(* Exact rational arithmetic.                                              *)
(***************************************************************************)
RECURSIVE GCD(_, _)
GCD(a, b) == IF b = 0 THEN a ELSE GCD(b, a % b)

Abs(x) == IF x < 0 THEN -x ELSE x

RNorm(n, d) ==
    LET g == GCD(Abs(n), d)
    IN  IF n = 0 THEN <<0, 1>> ELSE <<n \div g, d \div g>>

R(n) == <<n, 1>>
RAdd(x, y) == RNorm(x[1] * y[2] + y[1] * x[2], x[2] * y[2])
RSub(x, y) == RNorm(x[1] * y[2] - y[1] * x[2], x[2] * y[2])
RMul(x, y) == RNorm(x[1] * y[1], x[2] * y[2])
RDivInt(x, k) == RNorm(x[1], x[2] * k)
RLe(x, y) == x[1] * y[2] <= y[1] * x[2]
RMin(x, y) == IF RLe(x, y) THEN x ELSE y

RECURSIVE RPow(_, _)
RPow(x, k) == IF k = 0 THEN R(1) ELSE RMul(x, RPow(x, k - 1))

RECURSIVE RSum(_)
RSum(s) == IF s = <<>> THEN R(0) ELSE RAdd(Head(s), RSum(Tail(s)))

(***************************************************************************)
(* Program constants.                                                      *)
(***************************************************************************)
n_iter == 5
beta == <<9, 10>>

Searchers == {"darts", "proxyless", "pnas"}
    \* "darts"     : DartsSeacher of runner/search.py
    \* "proxyless" : ProxylessNasSearcher of runner/search.py
    \* "pnas"      : ProxylessNasSearcher of runner/searcher/pnas.py

OptKeys == {"warmup", "train", "valid"}
Arch == 1..NumArch

VARIABLES
    cfg,        \* args, regularizer and comm.n_procs given to the searcher
    pc,         \* position in run()
    warm_epoch, \* cur_epoch of _warmup / _start_warmup
    cur_epoch,  \* cur_epoch of run
    i,          \* index of the iteration within the epoch
    key,        \* key argument of the running weight-update step
    mb,         \* micro-batches done in the running step
    weights,    \* the network weights (get_net_parameters)
    net_grad,   \* their gradient buffer
    alpha,      \* the architecture parameters (get_arch_parameters)
    arch_grad,  \* their gradient buffers
    binding,    \* optimizer[k] -> the parameters given to set_parameters
    training,   \* the flag of the last model.apply(training=...)
    graph,      \* the sampled sub-network: <<step, sample>> of its sampling
    train_pos,  \* batches taken from dataloader['train']
    valid_pos,  \* batches taken from dataloader['valid']
    valid_data, \* valid_data / data of the architecture step
    rewards,    \* rewards of the architecture step
    grads,      \* grads of the architecture step
    _reward,    \* the baseline self._reward, one per process
    log,        \* what the running step has called so far
    steps,      \* steps started and completed since run() began
    events,     \* what run() has called on the monitor and the callbacks
    xp          \* an object or a call of ofa_xception/modules.py in progress

vars == <<cfg, pc, warm_epoch, cur_epoch, i, key, mb, weights, net_grad,
          alpha, arch_grad, binding, training, graph, train_pos, valid_pos,
          valid_data, rewards, grads, _reward, log, steps, events, xp>>

(***************************************************************************)
(* Configurations.  Searcher.__init__ derives accum_train and accum_valid   *)
(* from the batch sizes.  cfg.inputs names the data the run is fed:         *)
(*   "coarse"      every error is 1 and every sampled gradient 1, for any   *)
(*                 number of epochs and steps;                              *)
(*   "late"        two architecture steps, the first on error 0 and         *)
(*                 gradient 1, the second on any errors and gradients;      *)
(*   "rewards"     one or two architecture steps on any errors;             *)
(*   "constraints" one architecture step on any errors, with regularizers   *)
(*                 whose estimates vary.                                    *)
(***************************************************************************)
BatchPairs == {p \in (1..MaxBs) \X (1..MaxBs) : p[2] <= p[1]}

Regularizers ==
    { <<[bound |-> 2, weight |-> 1]>>,
      <<[bound |-> 2, weight |-> 2]>>,
      <<[bound |-> 0, weight |-> 1]>>,
      <<[bound |-> 2, weight |-> 0], [bound |-> 1, weight |-> 1]>> }

Config(s, w, e, n, bt, bv, np, reg, inp, pf) ==
    [searcher |-> s, warmup |-> w, epoch |-> e, one_epoch |-> n,
     bs_train |-> bt[1], mbs_train |-> bt[2],
     bs_valid |-> bv[1], mbs_valid |-> bv[2],
     n_procs |-> np, regularizer |-> reg, inputs |-> inp,
     print_frequency |-> pf]

\* Only runner/searcher/pnas.py has a communicator.
ProcsOf(s, max) == IF s = "pnas" THEN 1..max ELSE {1}

CoarseConfigs ==
    { Config(s, w, e, n, bt, bv, np, <<>>, "coarse", 1) :
        s \in Searchers, w \in 0..MaxWarmup, e \in 0..MaxEpoch,
        n \in 0..MaxOneEpoch, bt \in BatchPairs, bv \in BatchPairs,
        np \in 1..MaxProcs }

LateConfigs ==
    { Config(s, 0, 2, 1, <<1, 1>>, <<1, 1>>, np, <<>>, "late", 1) :
        s \in {"proxyless", "pnas"}, np \in 1..2 }

RewardConfigs ==
    { Config(s, 0, e, 1, <<1, 1>>, bv, np, <<>>, "rewards", 1) :
        s \in {"proxyless", "pnas"}, e \in 1..2,
        bv \in {<<1, 1>>, <<2, 1>>}, np \in 1..2 }

ConstraintConfigs ==
    { Config(s, 0, 1, 1, <<1, 1>>, bv, 1, reg, "constraints", 1) :
        s \in {"proxyless", "pnas"}, bv \in {<<1, 1>>, <<2, 1>>},
        reg \in Regularizers }

\* One epoch of one iteration on any batch size up to MaxBatch and any
\* micro-batch size up to it, dividing it or not.
WidePairs == {p \in (1..MaxBatch) \X (1..MaxBatch) : p[2] <= p[1]}

BatchConfigs ==
    { Config(s, w, 1, 1, bt, bv, np, <<>>, "coarse", 1) :
        s \in Searchers, w \in 0..1, bt \in WidePairs, bv \in WidePairs,
        np \in 1..2 }

\* Any number of warmup epochs, epochs and iterations and any
\* print_frequency, on batches of two micro-batches.
RunConfigs ==
    { Config(s, w, e, n, <<2, 1>>, <<2, 1>>, np, <<>>, "coarse", pf) :
        s \in Searchers, w \in 0..MaxWarmup, e \in 0..MaxEpoch,
        n \in 0..MaxOneEpoch, np \in 1..MaxProcs,
        pf \in 1..MaxPrintFrequency }

Configs ==
    { c \in CoarseConfigs \cup LateConfigs \cup RewardConfigs
              \cup ConstraintConfigs :
        c.n_procs \in ProcsOf(c.searcher, MaxProcs) }

\* The batch size divided by the micro-batch size, rounded up.
accum_train_ceil == (cfg.bs_train + cfg.mbs_train - 1) \div cfg.mbs_train

accum_train == cfg.bs_train \div cfg.mbs_train
accum_valid == cfg.bs_valid \div cfg.mbs_valid

\* err of one forward pass, in [0, 1]
ErrInputs ==
    IF cfg.inputs = "coarse" THEN {R(1)}
    ELSE IF cfg.inputs = "late" /\ steps.arch = 0 THEN {R(0)}
    ELSE {R(0), R(1)}

\* what sampling a sub-network leaves in the gradient of an architecture
\* parameter
GradInputs == IF cfg.inputs = "late" /\ steps.arch > 0 THEN {-1, 1} ELSE {1}

\* get_estimation(model) of a regularizer, > 0
ValueInputs == IF cfg.inputs = "constraints" THEN {1, 4} ELSE {1}

\* another process's mean reward and its gradient estimate
OtherInputs == IF cfg.inputs = "coarse" THEN {0} ELSE {0, 1}

\* another process's gradient of the network weights
OtherNetInputs == {3}

NoGraph == <<-1, -1>>

InitAlpha == [j \in Arch |-> R(0)]

\* Nothing called yet: the calls counted, the graph of the last forward pass,
\* the gradient buffer as zero_grad left it, the gradients handed to backward
\* since, the baseline the step began with, the errors, the accuracy and
\* the batches of the last sample evaluated, the training flag in force at
\* the last forward pass, and the architecture parameters the step began with.
NoLog == [zero_grad |-> 0, forward |-> 0, backward |-> 0, update |-> 0,
          train_next |-> 0, valid_next |-> 0, all_reduce |-> 0, event |-> 0,
          fwd_graph |-> NoGraph, base |-> R(0), sum |-> R(0),
          baseline |-> R(0), errs |-> <<>>, accuracy |-> R(0),
          evaluated |-> <<>>, mode |-> "unset", alpha0 |-> InitAlpha]

NoSteps == [warmup |-> 0, train |-> 0, arch |-> 0, started |-> 0]

ZeroGrad == [j \in Arch |-> R(0)]

(***************************************************************************)
(* The solver: zero_grad and update act on the parameters it is bound to.  *)
(***************************************************************************)
ZeroNet(b, g) == IF b = "net" THEN R(0) ELSE g
ZeroArch(b, g) == IF b = "arch" THEN ZeroGrad ELSE g
UpdateNet(b, w, g) == IF b = "net" THEN RSub(w, g) ELSE w
UpdateArch(b, a, g) ==
    IF b = "arch" THEN [j \in Arch |-> RSub(a[j], g[j])] ELSE a

\* comm.all_reduce(division=True): the mean over the processes, the others'
\* values being others[p].
RECURSIVE SumOthers(_, _)
SumOthers(others, p) ==
    IF p > cfg.n_procs THEN R(0)
    ELSE RAdd(R(others[p]), SumOthers(others, p + 1))

AllReduce(x, others) == RDivInt(RAdd(x, SumOthers(others, 2)), cfg.n_procs)

Distributed == cfg.searcher = "pnas" /\ cfg.n_procs > 1

\* What sampling leaves in the gradient buffers of the architecture parameters.
SampledGrads == {[j \in Arch |-> R(s * j)] : s \in GradInputs}

(***************************************************************************)
(* What run() has called so far on the monitor and on the callbacks: the   *)
(* calls counted, and the last of them.                                    *)
(***************************************************************************)
NoEvents == [reset |-> 0, warmup_lr |-> 0, display |-> 0, epoch_end |-> 0,
             save_output |-> 0, write |-> 0, finish |-> 0, close |-> 0,
             last |-> "none"]

\* No XPLayer is being constructed.
NoXP == [pc |-> "none"]

(***************************************************************************)
(* Init: the searcher as constructed.                                      *)
(***************************************************************************)
Constructed ==
    /\ pc = "warmup"
    /\ warm_epoch = 0
    /\ cur_epoch = 0
    /\ i = 0
    /\ key = "train"
    /\ mb = 0
    /\ weights = R(0)
    /\ net_grad = R(0)
    /\ alpha = InitAlpha
    /\ arch_grad = ZeroGrad
    /\ binding = IF cfg.searcher = "darts"
                 THEN [k \in OptKeys |->
                         IF k = "train" THEN "net"
                         ELSE IF k = "valid" THEN "arch" ELSE "none"]
                 ELSE [k \in OptKeys |-> "none"]
    /\ training = IF cfg.searcher = "darts" THEN "False" ELSE "unset"
    /\ graph = <<0, 0>>
    /\ train_pos = 0
    /\ valid_pos = 0
    /\ valid_data = <<>>
    /\ rewards = <<>>
    /\ grads = <<>>
    /\ _reward = [p \in 1..cfg.n_procs |-> R(0)]
    /\ log = NoLog
    /\ steps = NoSteps
    /\ events = NoEvents

Init ==
    /\ cfg \in Configs
    /\ Constructed
    /\ xp = NoXP

(***************************************************************************)
(* run(), _warmup() / _start_warmup(): the loops.                          *)
(***************************************************************************)
data == <<weights, net_grad, alpha, arch_grad, binding, training, graph,
          train_pos, valid_pos, valid_data, rewards, grads, _reward>>

TrainEntry == IF cfg.searcher = "darts" THEN "train_zero_grad" ELSE "train_sample"
ArchEntry == IF cfg.searcher = "darts" THEN "arch_sample" ELSE "valid_fetch"

\* monitor.info exists in runner/searcher/search.py only; runner/search.py
\* writes the line to the logger.
InfoEvent == IF cfg.searcher = "pnas" THEN "info" ELSE "reset"

\* monitor.update(...) of a step
Updated(ev) == [ev EXCEPT !.last = "update"]

\* if i % print_frequency == 0: monitor.display(i)
Displayed(ev) ==
    IF i % cfg.print_frequency = 0
    THEN [ev EXCEPT !.display = @ + 1, !.last = "display"]
    ELSE ev

\* for cur_epoch in range(self.args.warmup): monitor.reset(), the learning
\* rate of optimizer['warmup'], the info line.
WarmupEpoch ==
    /\ pc = "warmup"
    /\ IF warm_epoch < cfg.warmup
       THEN /\ pc' = "warmup_iter"
            /\ i' = 0
            /\ events' = [events EXCEPT !.reset = @ + 1, !.warmup_lr = @ + 1,
                                        !.last = InfoEvent]
       ELSE /\ pc' = "epoch"
            /\ i' = i
            /\ events' = events
    /\ UNCHANGED <<cfg, xp, warm_epoch, cur_epoch, key, mb, data, log, steps>>

\* for i in range(self.one_epoch): update_model_step(key='warmup')
WarmupIteration ==
    /\ pc = "warmup_iter"
    /\ IF i < cfg.one_epoch
       THEN /\ pc' = TrainEntry
            /\ key' = "warmup"
            /\ mb' = 0
            /\ log' = NoLog
            /\ steps' = [steps EXCEPT !.started = @ + 1]
            /\ UNCHANGED warm_epoch
       ELSE /\ pc' = "warmup"
            /\ warm_epoch' = warm_epoch + 1
            /\ UNCHANGED <<key, mb, log, steps>>
    /\ UNCHANGED <<cfg, xp, events, cur_epoch, i, data>>

\* A warmup iteration that goes on to the architecture step.
WarmupDisplay_arch ==
    /\ pc = "train_done"
    /\ key = "warmup"
    /\ pc' = ArchEntry
    /\ mb' = 0
    /\ log' = [NoLog EXCEPT !.baseline = _reward[1]]
    /\ steps' = [steps EXCEPT !.started = @ + 1]
    /\ UNCHANGED <<cfg, xp, events, warm_epoch, cur_epoch, i, key, data>>

\* if i % print_frequency == 0: monitor.display(i), and the next i
WarmupDisplay ==
    /\ pc = "train_done"
    /\ key = "warmup"
    /\ pc' = "warmup_iter"
    /\ i' = i + 1
    /\ events' = Displayed(events)
    /\ UNCHANGED <<cfg, xp, warm_epoch, cur_epoch, key, mb, data, log, steps>>

\* The epoch loop over range(self.args.epoch + 1).
Epoch_inclusive ==
    /\ pc = "epoch"
    /\ IF cur_epoch <= cfg.epoch
       THEN /\ pc' = "iter"
            /\ i' = 0
            /\ events' = [events EXCEPT !.reset = @ + 1, !.last = InfoEvent]
       ELSE /\ pc' = IF cfg.searcher = "pnas" THEN "finish" ELSE "close"
            /\ i' = i
            /\ events' = events
    /\ UNCHANGED <<cfg, xp, warm_epoch, cur_epoch, key, mb, data, log, steps>>

\* for cur_epoch in range(self.args.epoch): monitor.reset(), the learning
\* rate of optimizer['train'], the info line.  After the last epoch
\* runner/searcher/search.py goes on to callback_on_finish(), runner/search.py
\* to monitor.close().
Epoch ==
    /\ pc = "epoch"
    /\ IF cur_epoch < cfg.epoch
       THEN /\ pc' = "iter"
            /\ i' = 0
            /\ events' = [events EXCEPT !.reset = @ + 1, !.last = InfoEvent]
       ELSE /\ pc' = IF cfg.searcher = "pnas" THEN "finish" ELSE "close"
            /\ i' = i
            /\ events' = events
    /\ UNCHANGED <<cfg, xp, warm_epoch, cur_epoch, key, mb, data, log, steps>>

\* for i in range(self.one_epoch): update_model_step() / train_on_batch()
Iteration ==
    /\ pc = "iter"
    /\ IF i < cfg.one_epoch
       THEN /\ pc' = TrainEntry
            /\ key' = "train"
            /\ mb' = 0
            /\ log' = NoLog
            /\ steps' = [steps EXCEPT !.started = @ + 1]
       ELSE /\ pc' = "epoch_end"
            /\ UNCHANGED <<key, mb, log, steps>>
    /\ UNCHANGED <<cfg, xp, events, warm_epoch, cur_epoch, i, data>>

\* An iteration without its architecture step.
ArchStep_skipped ==
    /\ pc = "train_done"
    /\ key = "train"
    /\ pc' = "iter"
    /\ i' = i + 1
    /\ UNCHANGED <<cfg, xp, events, warm_epoch, cur_epoch, key, mb, data, log,
                   steps>>

\* update_arch_step() / valid_on_batch() is called after the weight update
ArchStep ==
    /\ pc = "train_done"
    /\ key = "train"
    /\ pc' = ArchEntry
    /\ mb' = 0
    /\ log' = [NoLog EXCEPT !.baseline = _reward[1], !.alpha0 = alpha]
    /\ steps' = [steps EXCEPT !.started = @ + 1]
    /\ UNCHANGED <<cfg, xp, events, warm_epoch, cur_epoch, i, key, data>>

\* the step has returned: monitor.display(i) every print_frequency
\* iterations, and the next i
Display ==
    /\ pc = "arch_done"
    /\ pc' = "iter"
    /\ i' = i + 1
    /\ events' = Displayed(events)
    /\ valid_data' = <<>>
    /\ rewards' = <<>>
    /\ grads' = <<>>
    /\ UNCHANGED <<cfg, xp, warm_epoch, cur_epoch, key, mb, weights, net_grad,
                   alpha, arch_grad, binding, training, graph, train_pos,
                   valid_pos, _reward, log, steps>>

\* An epoch that ends without its callback.
EpochEnd_skipped ==
    /\ pc = "epoch_end"
    /\ pc' = "write"
    /\ UNCHANGED <<cfg, xp, events, warm_epoch, cur_epoch, i, key, mb, data, log,
                   steps>>

\* save_output() (runner/search.py), callback_on_epoch_end() (searcher/search.py)
EpochEnd ==
    /\ pc = "epoch_end"
    /\ pc' = "write"
    /\ events' = IF cfg.searcher = "pnas"
                 THEN [events EXCEPT !.epoch_end = @ + 1, !.last = "epoch_end"]
                 ELSE [events EXCEPT !.save_output = @ + 1,
                                     !.last = "save_output"]
    /\ UNCHANGED <<cfg, xp, warm_epoch, cur_epoch, i, key, mb, data, log, steps>>

\* monitor.write(cur_epoch)
MonitorWrite ==
    /\ pc = "write"
    /\ pc' = "epoch"
    /\ cur_epoch' = cur_epoch + 1
    /\ events' = [events EXCEPT !.write = @ + 1, !.last = "write"]
    /\ UNCHANGED <<cfg, xp, warm_epoch, i, key, mb, data, log, steps>>

\* callback_on_finish() (runner/searcher/search.py)
Finish ==
    /\ pc = "finish"
    /\ pc' = "close"
    /\ events' = [events EXCEPT !.finish = @ + 1, !.last = "finish"]
    /\ UNCHANGED <<cfg, xp, warm_epoch, cur_epoch, i, key, mb, data, log, steps>>

\* monitor.close(), return self
MonitorClose ==
    /\ pc = "close"
    /\ pc' = "done"
    /\ events' = [events EXCEPT !.close = @ + 1, !.last = "close"]
    /\ UNCHANGED <<cfg, xp, warm_epoch, cur_epoch, i, key, mb, data, log, steps>>

(***************************************************************************)
(* Sampling a sub-network.  A graph is named by the step and the sample of *)
(* that step it was sampled for.                                           *)
(***************************************************************************)
\* A sample_network that samples nothing.
sample_network_stale(old, new) == old

\* ProxylessNasSearcher.sample_network calls update_active_index on every
\* architecture module; Searcher.sample_network, which DartsSeacher keeps,
\* does nothing.
sample_network(old, new) == IF cfg.searcher = "darts" THEN old ELSE new

\* Runner.update_graph(key) samples the graph the placeholders are built on.
update_graph(old, new) == new

(***************************************************************************)
(* The weight-update step: update_model_step / train_on_batch.             *)
(***************************************************************************)
loop_vars == <<warm_epoch, cur_epoch, i, key>>

\* A weight update that never synchronizes.
AfterTrainLoop_local == "train_update"

\* if self.comm.n_procs > 1: ... after the loop
AfterTrainLoop ==
    IF Distributed THEN "train_all_reduce" ELSE "train_update"

\* A training sub-network sampled in evaluation mode.
SampleTrainNet_eval ==
    /\ pc = "train_sample"
    /\ cfg.searcher = "proxyless"
    /\ \E g \in SampledGrads :
          /\ graph' = sample_network(graph, <<steps.started, 0>>)
          /\ arch_grad' = g
    /\ training' = "False"
    /\ binding' = [binding EXCEPT !["train"] = "net"]
    /\ pc' = "train_zero_grad"
    /\ UNCHANGED <<cfg, xp, events, loop_vars, mb, weights, net_grad, alpha, train_pos,
                   valid_pos, valid_data, rewards, grads, _reward, log, steps>>

\* ProxylessNasSearcher.update_model_step: self._sample_train_net()
SampleTrainNet ==
    /\ pc = "train_sample"
    /\ cfg.searcher = "proxyless"
    /\ \E g \in SampledGrads :
          /\ graph' = sample_network(graph, <<steps.started, 0>>)
          /\ arch_grad' = g
    /\ training' = "True"
    /\ binding' = [binding EXCEPT !["train"] = "net"]
    /\ pc' = "train_zero_grad"
    /\ UNCHANGED <<cfg, xp, events, loop_vars, mb, weights, net_grad, alpha, train_pos,
                   valid_pos, valid_data, rewards, grads, _reward, log, steps>>

\* pnas.py train_on_batch: update_graph(key), then optimizer[key] is bound to
\* the network parameters.
TrainOnBatch ==
    /\ pc = "train_sample"
    /\ cfg.searcher = "pnas"
    /\ \E g \in SampledGrads :
          /\ graph' = update_graph(graph, <<steps.started, 0>>)
          /\ arch_grad' = g
    /\ training' = "True"
    /\ binding' = [binding EXCEPT ![key] = "net"]
    /\ pc' = "train_zero_grad"
    /\ UNCHANGED <<cfg, xp, events, loop_vars, mb, weights, net_grad, alpha, train_pos,
                   valid_pos, valid_data, rewards, grads, _reward, log, steps>>

\* self.optimizer[key].zero_grad()
ZeroGradTrain ==
    /\ pc = "train_zero_grad"
    /\ net_grad' = ZeroNet(binding[key], net_grad)
    /\ arch_grad' = ZeroArch(binding[key], arch_grad)
    /\ log' = [log EXCEPT !.zero_grad = @ + 1, !.base = net_grad',
                          !.sum = R(0)]
    /\ pc' = IF Distributed THEN "train_sync" ELSE "train_loop"
    /\ UNCHANGED <<cfg, xp, events, loop_vars, mb, weights, alpha, binding, training,
                   graph, train_pos, valid_pos, valid_data, rewards, grads,
                   _reward, steps>>

\* if self.comm.n_procs > 1: self.event.default_stream_synchronize()
TrainSync ==
    /\ pc = "train_sync"
    /\ log' = [log EXCEPT !.event = @ + 1]
    /\ pc' = "train_loop"
    /\ UNCHANGED <<cfg, xp, events, loop_vars, mb, data, steps>>

\* The gradient one micro-batch adds: the loss is divided by accum_train.
MicroGrad == RDivInt(R(1), accum_train)

\* A micro-batch that clears the gradients before its backward pass.
TrainMicroBatch_cleared ==
    /\ pc = "train_loop"
    /\ mb < accum_train
    /\ train_pos' = train_pos + 1
    /\ net_grad' = MicroGrad
    /\ arch_grad' = arch_grad
    /\ log' = [log EXCEPT !.train_next = @ + 1, !.forward = @ + 1,
                          !.mode = training,
                          !.backward = @ + 1, !.fwd_graph = graph,
                          !.sum = RAdd(@, MicroGrad)]
    /\ mb' = mb + 1
    /\ events' = Updated(events)
    /\ UNCHANGED <<cfg, xp, pc, loop_vars, weights, alpha, binding, training,
                   graph, valid_pos, valid_data, rewards, grads, _reward,
                   steps>>

\* One micro-batch: the next training batch, forward, backward.
TrainMicroBatch ==
    /\ pc = "train_loop"
    /\ mb < accum_train
    /\ train_pos' = train_pos + 1
    /\ net_grad' = RAdd(net_grad, MicroGrad)
    /\ arch_grad' = IF cfg.searcher = "darts"
                    THEN [j \in Arch |-> RAdd(arch_grad[j], MicroGrad)]
                    ELSE arch_grad
    /\ log' = [log EXCEPT !.train_next = @ + 1, !.forward = @ + 1,
                          !.mode = training,
                          !.backward = @ + 1, !.fwd_graph = graph,
                          !.sum = RAdd(@, MicroGrad)]
    /\ mb' = mb + 1
    /\ events' = Updated(events)
    /\ UNCHANGED <<cfg, xp, pc, loop_vars, weights, alpha, binding, training,
                   graph, valid_pos, valid_data, rewards, grads, _reward,
                   steps>>

\* The loop is over.
TrainLoopEnd ==
    /\ pc = "train_loop"
    /\ mb >= accum_train
    /\ pc' = AfterTrainLoop
    /\ UNCHANGED <<cfg, xp, events, loop_vars, mb, data, log, steps>>

\* if self.comm.n_procs > 1: all_reduce(grads), event.add_default_stream_event()
TrainAllReduce ==
    /\ pc = "train_all_reduce"
    /\ \E others \in [2..cfg.n_procs -> OtherNetInputs] :
          net_grad' = AllReduce(net_grad, others)
    /\ log' = [log EXCEPT !.all_reduce = @ + 1, !.event = @ + 1]
    /\ pc' = "train_update"
    /\ UNCHANGED <<cfg, xp, events, loop_vars, mb, weights, alpha, arch_grad, binding,
                   training, graph, train_pos, valid_pos, valid_data, rewards,
                   grads, _reward, steps>>

\* A weight update through optimizer['valid'].
TrainUpdate_valid ==
    /\ pc = "train_update"
    /\ weights' = UpdateNet(binding["valid"], weights, net_grad)
    /\ alpha' = UpdateArch(binding["valid"], alpha, arch_grad)
    /\ log' = [log EXCEPT !.update = @ + 1]
    /\ steps' = IF key = "warmup"
                THEN [steps EXCEPT !.warmup = @ + 1]
                ELSE [steps EXCEPT !.train = @ + 1]
    /\ pc' = "train_done"
    /\ UNCHANGED <<cfg, xp, events, loop_vars, mb, net_grad, arch_grad, binding,
                   training, graph, train_pos, valid_pos, valid_data, rewards,
                   grads, _reward>>

\* self.optimizer[key].update()
TrainUpdate ==
    /\ pc = "train_update"
    /\ weights' = UpdateNet(binding[key], weights, net_grad)
    /\ alpha' = UpdateArch(binding[key], alpha, arch_grad)
    /\ log' = [log EXCEPT !.update = @ + 1]
    /\ steps' = IF key = "warmup"
                THEN [steps EXCEPT !.warmup = @ + 1]
                ELSE [steps EXCEPT !.train = @ + 1]
    /\ pc' = "train_done"
    /\ UNCHANGED <<cfg, xp, events, loop_vars, mb, net_grad, arch_grad, binding, training,
                   graph, train_pos, valid_pos, valid_data, rewards, grads,
                   _reward>>

(***************************************************************************)
(* DartsSeacher.update_arch_step.                                          *)
(***************************************************************************)
\* self._sample_search_net()
SampleSearchNet ==
    /\ pc = "arch_sample"
    /\ graph' = sample_network(graph, <<steps.started, 0>>)
    /\ training' = "False"
    /\ binding' = [binding EXCEPT !["valid"] = "arch"]
    /\ pc' = "arch_zero_grad"
    /\ UNCHANGED <<cfg, xp, events, loop_vars, mb, weights, net_grad, alpha, arch_grad,
                   train_pos, valid_pos, valid_data, rewards, grads, _reward,
                   log, steps>>

\* self.optimizer['valid'].zero_grad()
ZeroGradArch ==
    /\ pc = "arch_zero_grad"
    /\ net_grad' = ZeroNet(binding["valid"], net_grad)
    /\ arch_grad' = ZeroArch(binding["valid"], arch_grad)
    /\ log' = [log EXCEPT !.zero_grad = @ + 1]
    /\ pc' = "arch_loop"
    /\ UNCHANGED <<cfg, xp, events, loop_vars, mb, weights, alpha, binding, training,
                   graph, train_pos, valid_pos, valid_data, rewards, grads,
                   _reward, steps>>

\* One validation micro-batch: the next validation batch, the forward passes.
ArchMicroBatch ==
    /\ pc = "arch_loop"
    /\ mb < accum_valid
    /\ valid_pos' = valid_pos + 1
    /\ log' = [log EXCEPT !.valid_next = @ + 1, !.forward = @ + 1,
                          !.mode = training,
                          !.fwd_graph = graph]
    /\ mb' = mb + 1
    /\ events' = Updated(events)
    /\ UNCHANGED <<cfg, xp, pc, loop_vars, weights, net_grad, alpha, arch_grad,
                   binding, training, graph, train_pos, valid_data, rewards,
                   grads, _reward, steps>>

\* The loop is over.
ArchLoopEnd ==
    /\ pc = "arch_loop"
    /\ mb >= accum_valid
    /\ pc' = "arch_update"
    /\ UNCHANGED <<cfg, xp, events, loop_vars, mb, data, log, steps>>

\* self.optimizer['valid'].update()
ArchUpdate ==
    /\ pc = "arch_update"
    /\ weights' = UpdateNet(binding["valid"], weights, net_grad)
    /\ alpha' = UpdateArch(binding["valid"], alpha, arch_grad)
    /\ log' = [log EXCEPT !.update = @ + 1]
    /\ steps' = [steps EXCEPT !.arch = @ + 1]
    /\ pc' = "arch_done"
    /\ UNCHANGED <<cfg, xp, events, loop_vars, mb, net_grad, arch_grad, binding, training,
                   graph, train_pos, valid_pos, valid_data, rewards, grads,
                   _reward>>

(***************************************************************************)
(* The ProxylessNAS architecture step: update_arch_step (runner/search.py) *)
(* and valid_on_batch (runner/searcher/pnas.py).                           *)
(***************************************************************************)
\* reward += (1 - err) / self.accum_valid, over the micro-batches
RECURSIVE Accuracy(_, _, _)
Accuracy(reward, errs, k) ==
    IF k > Len(errs) THEN reward
    ELSE Accuracy(RAdd(reward, RDivInt(RSub(R(1), errs[k]), accum_valid)),
                  errs, k + 1)

\* The ratio without its cap.
ClippedRatio_uncapped(bound, value) == RNorm(bound, value)

\* pnas.py: min(1.0, v['bound'] / value)
ClippedRatio(bound, value) == RMin(R(1), RNorm(bound, value))

\* runner/search.py: v['bound'] / value
PlainRatio(bound, value) == RNorm(bound, value)

Ratio(bound, value) ==
    IF cfg.searcher = "pnas" THEN ClippedRatio(bound, value)
    ELSE PlainRatio(bound, value)

\* for k, v in self.regularizer.items(): reward *= ratio ** v['weight']
RECURSIVE Constrained(_, _, _)
Constrained(reward, values, k) ==
    IF k > Len(cfg.regularizer) THEN reward
    ELSE Constrained(
             RMul(reward, RPow(Ratio(cfg.regularizer[k].bound, values[k]),
                               cfg.regularizer[k].weight)),
             values, k + 1)

Reward(errs, values) == Constrained(Accuracy(R(0), errs, 1), values, 1)

\* A buffer that is not cleared.
GradZeroed_kept(g) == g

\* m.grad.zero()
GradZeroed(g) == R(0)

\* for i, r in enumerate(rewards): m.g += (r - self._reward) * grads[i][j] / n_iter
RECURSIVE Estimator(_, _, _, _)
Estimator(g, j, k, b) ==
    IF k > Len(rewards) THEN g
    ELSE Estimator(
             RAdd(g, RDivInt(RMul(RSub(rewards[k], b), grads[k][j]), n_iter)),
             j, k + 1, b)

\* A moving average with its two weights exchanged.
NewBaseline_swapped(rs, b) ==
    RAdd(RDivInt(RMul(RSub(R(1), beta), RSum(rs)), n_iter), RMul(beta, b))

\* beta * sum(rewards) / n_iter + (1 - beta) * self._reward
NewBaseline(rs, b) ==
    RAdd(RDivInt(RMul(beta, RSum(rs)), n_iter), RMul(RSub(R(1), beta), b))

\* The same moving average on another process, whose rewards have mean m.
OtherBaseline(m, b) == RAdd(RMul(beta, R(m)), RMul(RSub(R(1), beta), b))

\* An architecture step that reads the training split.
ValidFetch_train ==
    /\ pc = "valid_fetch"
    /\ valid_data' = [k \in 1..accum_valid |-> train_pos + k]
    /\ train_pos' = train_pos + accum_valid
    /\ rewards' = <<>>
    /\ grads' = <<>>
    /\ log' = [log EXCEPT !.train_next = @ + accum_valid]
    /\ pc' = IF Distributed THEN "valid_sync" ELSE "valid_loop"
    /\ UNCHANGED <<cfg, xp, events, loop_vars, mb, weights, net_grad, alpha, arch_grad,
                   binding, training, graph, valid_pos, _reward, steps>>

\* data = [self.dataloader['valid'].next() for i in range(self.accum_valid)]
\* rewards, grads = [], []
ValidFetch ==
    /\ pc = "valid_fetch"
    /\ valid_data' = [k \in 1..accum_valid |-> valid_pos + k]
    /\ valid_pos' = valid_pos + accum_valid
    /\ rewards' = <<>>
    /\ grads' = <<>>
    /\ log' = [log EXCEPT !.valid_next = @ + accum_valid]
    /\ pc' = IF Distributed THEN "valid_sync" ELSE "valid_loop"
    /\ UNCHANGED <<cfg, xp, events, loop_vars, mb, weights, net_grad, alpha, arch_grad,
                   binding, training, graph, train_pos, _reward, steps>>

\* if self.comm.n_procs > 1: self.event.default_stream_synchronize()
ValidSync ==
    /\ pc = "valid_sync"
    /\ log' = [log EXCEPT !.event = @ + 1]
    /\ pc' = "valid_loop"
    /\ UNCHANGED <<cfg, xp, events, loop_vars, mb, data, steps>>

\* A sample that takes its own micro-batches from dataloader['valid'].
ArchSample_refetch ==
    /\ pc = "valid_loop"
    /\ cfg.searcher = "proxyless"
    /\ mb < n_iter
    /\ valid_data' = [k \in 1..accum_valid |-> valid_pos + k]
    /\ valid_pos' = valid_pos + accum_valid
    /\ \E g \in SampledGrads, errs \in [1..accum_valid -> ErrInputs],
          values \in [1..Len(cfg.regularizer) -> ValueInputs] :
          /\ graph' = sample_network(graph, <<steps.started, mb + 1>>)
          /\ arch_grad' = g
          /\ rewards' = Append(rewards, Reward(errs, values))
          /\ grads' = Append(grads, g)
          /\ log' = [log EXCEPT !.forward = @ + accum_valid, !.fwd_graph = graph',
                                !.mode = "False",
                                !.errs = errs,
                                !.accuracy = Accuracy(R(0), errs, 1),
                                !.valid_next = @ + accum_valid,
                                !.evaluated = valid_data']
    /\ training' = "False"
    /\ binding' = [binding EXCEPT !["valid"] = "arch"]
    /\ mb' = mb + 1
    /\ events' = Updated(events)
    /\ UNCHANGED <<cfg, xp, pc, loop_vars, weights, net_grad, alpha, train_pos,
                   _reward, steps>>

\* One of the n_iter samples of update_arch_step: _sample_search_net(), the
\* forward passes on data, the constraints, the reward and gradients kept.
ArchSample ==
    /\ pc = "valid_loop"
    /\ cfg.searcher = "proxyless"
    /\ mb < n_iter
    /\ \E g \in SampledGrads, errs \in [1..accum_valid -> ErrInputs],
          values \in [1..Len(cfg.regularizer) -> ValueInputs] :
          /\ graph' = sample_network(graph, <<steps.started, mb + 1>>)
          /\ arch_grad' = g
          /\ rewards' = Append(rewards, Reward(errs, values))
          /\ grads' = Append(grads, g)
          /\ log' = [log EXCEPT !.forward = @ + accum_valid, !.fwd_graph = graph',
                                !.mode = "False",
                                !.errs = errs,
                                !.accuracy = Accuracy(R(0), errs, 1),
                                !.evaluated = [k \in 1..accum_valid |->
                                                 valid_data[k]]]
    /\ training' = "False"
    /\ binding' = [binding EXCEPT !["valid"] = "arch"]
    /\ mb' = mb + 1
    /\ events' = Updated(events)
    /\ UNCHANGED <<cfg, xp, pc, loop_vars, weights, net_grad, alpha, train_pos,
                   valid_pos, valid_data, _reward, steps>>

\* One of the n_iter samples of valid_on_batch: update_graph('valid'),
\* optimizer['valid'] bound to the architecture parameters, the forward passes
\* on valid_data, the constraints, the reward and gradients kept.
ValidSample ==
    /\ pc = "valid_loop"
    /\ cfg.searcher = "pnas"
    /\ mb < n_iter
    /\ \E g \in SampledGrads, errs \in [1..Len(valid_data) -> ErrInputs],
          values \in [1..Len(cfg.regularizer) -> ValueInputs] :
          /\ graph' = update_graph(graph, <<steps.started, mb + 1>>)
          /\ arch_grad' = g
          /\ rewards' = Append(rewards, Reward(errs, values))
          /\ grads' = Append(grads, g)
          /\ log' = [log EXCEPT !.forward = @ + Len(valid_data), !.fwd_graph = graph',
                                !.mode = "False",
                                !.errs = errs,
                                !.accuracy = Accuracy(R(0), errs, 1),
                                !.evaluated = valid_data]
    /\ training' = "False"
    /\ binding' = [binding EXCEPT !["valid"] = "arch"]
    /\ mb' = mb + 1
    /\ events' = Updated(events)
    /\ UNCHANGED <<cfg, xp, pc, loop_vars, weights, net_grad, alpha, train_pos,
                   valid_pos, valid_data, _reward, steps>>

\* The n_iter samples are done.
ValidLoopEnd ==
    /\ pc = "valid_loop"
    /\ mb >= n_iter
    /\ pc' = "valid_grads"
    /\ UNCHANGED <<cfg, xp, events, loop_vars, mb, data, log, steps>>

\* An estimator formed with the baseline this step will leave.
ComputeGradients_late ==
    /\ pc = "valid_grads"
    /\ arch_grad' = [j \in Arch |->
                       Estimator(GradZeroed(arch_grad[j]), j, 1,
                                 NewBaseline(rewards, _reward[1]))]
    /\ pc' = IF cfg.searcher = "pnas" THEN "valid_reward" ELSE "valid_update"
    /\ UNCHANGED <<cfg, xp, events, loop_vars, mb, weights, net_grad, alpha, binding,
                   training, graph, train_pos, valid_pos, valid_data, rewards,
                   grads, _reward, log, steps>>

\* compute gradients: every buffer is cleared, then the estimator is added up
ComputeGradients ==
    /\ pc = "valid_grads"
    /\ arch_grad' = [j \in Arch |->
                       Estimator(GradZeroed(arch_grad[j]), j, 1, _reward[1])]
    /\ pc' = IF cfg.searcher = "pnas" THEN "valid_reward" ELSE "valid_update"
    /\ UNCHANGED <<cfg, xp, events, loop_vars, mb, weights, net_grad, alpha, binding,
                   training, graph, train_pos, valid_pos, valid_data, rewards,
                   grads, _reward, log, steps>>

\* runner/search.py: the baseline is replaced after optimizer['valid'].update()
UpdateRewardProxyless ==
    /\ pc = "valid_reward"
    /\ cfg.searcher = "proxyless"
    /\ _reward' = [p \in 1..cfg.n_procs |-> NewBaseline(rewards, _reward[p])]
    /\ steps' = [steps EXCEPT !.arch = @ + 1]
    /\ pc' = "arch_done"
    /\ UNCHANGED <<cfg, xp, events, loop_vars, mb, weights, net_grad, alpha, arch_grad,
                   binding, training, graph, train_pos, valid_pos, valid_data,
                   rewards, grads, log>>

\* pnas.py: update global reward, on this process and on every other one
UpdateRewardPnas ==
    /\ pc = "valid_reward"
    /\ cfg.searcher = "pnas"
    /\ \E means \in [2..cfg.n_procs -> OtherInputs] :
          _reward' = [p \in 1..cfg.n_procs |->
                        IF p = 1 THEN NewBaseline(rewards, _reward[p])
                        ELSE OtherBaseline(means[p], _reward[p])]
    /\ pc' = IF Distributed THEN "valid_all_reduce" ELSE "valid_update"
    /\ UNCHANGED <<cfg, xp, events, loop_vars, mb, weights, net_grad, alpha, arch_grad,
                   binding, training, graph, train_pos, valid_pos, valid_data,
                   rewards, grads, log, steps>>

\* An all_reduce of the architecture gradients alone.
ValidAllReduce_grads ==
    /\ pc = "valid_all_reduce"
    /\ \E others \in [2..cfg.n_procs -> OtherInputs] :
          arch_grad' = [j \in Arch |-> AllReduce(arch_grad[j], others)]
    /\ log' = [log EXCEPT !.all_reduce = @ + 2, !.event = @ + 1]
    /\ pc' = "valid_update"
    /\ UNCHANGED <<cfg, xp, events, loop_vars, mb, weights, net_grad, alpha, binding,
                   training, graph, train_pos, valid_pos, valid_data, rewards,
                   grads, _reward, steps>>

\* if self.comm.n_procs > 1: all_reduce of the architecture gradients and of
\* self._reward, event.add_default_stream_event()
ValidAllReduce ==
    /\ pc = "valid_all_reduce"
    /\ \E others \in [2..cfg.n_procs -> OtherInputs] :
          arch_grad' = [j \in Arch |-> AllReduce(arch_grad[j], others)]
    /\ _reward' = [p \in 1..cfg.n_procs |->
                     RDivInt(RSum([q \in 1..cfg.n_procs |-> _reward[q]]),
                             cfg.n_procs)]
    /\ log' = [log EXCEPT !.all_reduce = @ + 2, !.event = @ + 1]
    /\ pc' = "valid_update"
    /\ UNCHANGED <<cfg, xp, events, loop_vars, mb, weights, net_grad, alpha, binding,
                   training, graph, train_pos, valid_pos, valid_data, rewards,
                   grads, steps>>

\* self.optimizer['valid'].update()
ValidUpdate ==
    /\ pc = "valid_update"
    /\ weights' = UpdateNet(binding["valid"], weights, net_grad)
    /\ alpha' = UpdateArch(binding["valid"], alpha, arch_grad)
    /\ log' = [log EXCEPT !.update = @ + 1]
    /\ IF cfg.searcher = "pnas"
       THEN pc' = "arch_done" /\ steps' = [steps EXCEPT !.arch = @ + 1]
       ELSE pc' = "valid_reward" /\ steps' = steps
    /\ events' = IF cfg.searcher = "pnas" THEN Updated(events) ELSE events
    /\ UNCHANGED <<cfg, xp, loop_vars, mb, net_grad, arch_grad, binding, training,
                   graph, train_pos, valid_pos, valid_data, rewards, grads,
                   _reward>>

(***************************************************************************)
(* The program.                                                            *)
(***************************************************************************)
Next ==
    \/ WarmupEpoch
    \/ WarmupIteration
    \/ WarmupDisplay
    \/ Epoch
    \/ Iteration
    \/ ArchStep
    \/ Display
    \/ EpochEnd
    \/ MonitorWrite
    \/ Finish
    \/ MonitorClose
    \/ SampleTrainNet
    \/ TrainOnBatch
    \/ ZeroGradTrain
    \/ TrainSync
    \/ TrainMicroBatch
    \/ TrainLoopEnd
    \/ TrainAllReduce
    \/ TrainUpdate
    \/ SampleSearchNet
    \/ ZeroGradArch
    \/ ArchMicroBatch
    \/ ArchLoopEnd
    \/ ArchUpdate
    \/ ValidFetch
    \/ ValidSync
    \/ ArchSample
    \/ ValidSample
    \/ ValidLoopEnd
    \/ ComputeGradients
    \/ UpdateRewardProxyless
    \/ UpdateRewardPnas
    \/ ValidAllReduce
    \/ ValidUpdate

Spec == Init /\ [][Next]_vars

\* The searcher constructed on any batch and micro-batch sizes.
InitBatch ==
    /\ cfg \in {c \in BatchConfigs : c.n_procs \in ProcsOf(c.searcher, 2)}
    /\ Constructed
    /\ xp = NoXP

SpecBatch == InitBatch /\ [][Next]_vars

\* run() is one thread of control: while a statement is left to execute, it
\* is executed.
InitRun ==
    /\ cfg \in {c \in RunConfigs : c.n_procs \in ProcsOf(c.searcher, MaxProcs)}
    /\ Constructed
    /\ xp = NoXP

SpecRun == InitRun /\ [][Next]_vars /\ WF_vars(Next)

(***************************************************************************)
(* XPLayer of contrib/classification/ofa_xception/modules.py: its three    *)
(* stages are lists of (name, module) pairs, each made an OrderedDict and  *)
(* handed to Mo.Sequential.  A module is its class, its input and output   *)
(* channels, and the side of its kernel.                                   *)
(***************************************************************************)
Kernels == {3, 5}

DwConv(c, k) == [op |-> "DwConv", cin |-> c, cout |-> c, kernel |-> k]
BatchNormalization(c) ==
    [op |-> "BatchNormalization", cin |-> c, cout |-> c, kernel |-> 0]
ReLU == [op |-> "ReLU", cin |-> 0, cout |-> 0, kernel |-> 0]
Conv(c, d) == [op |-> "Conv", cin |-> c, cout |-> d, kernel |-> 1]

\* depth_conv_module_1 .. _3: the list the code writes, c the channels the
\* stage reads (feature_dim for the first, out_channels for the others).
depth_conv_module(c, out_channels, kernel) ==
    << <<"conv", DwConv(c, kernel)>>,
       <<"bn", BatchNormalization(c)>>,
       <<"act", ReLU>>,
       <<"conv", Conv(c, out_channels)>>,
       <<"bn", BatchNormalization(out_channels)>>,
       <<"act", ReLU>> >>

\* One (key, value) pair entering an OrderedDict: a key already there keeps
\* its place and takes the new value; a new key goes to the end.
OrderedDictPut(d, pair) ==
    IF \E n \in 1..Len(d) : d[n][1] = pair[1]
    THEN [n \in 1..Len(d) |-> IF d[n][1] = pair[1] THEN pair ELSE d[n]]
    ELSE Append(d, pair)

\* Mo.Sequential(OrderedDict): the modules of the dictionary, in its order.
Sequential(d) == [n \in 1..Len(d) |-> d[n][2]]

\* if self._mid_channels is None: round(in_channels * expand_ratio)
\* (mid_channels = 0 stands for None)
FeatureDim(in_channels, expand_ratio, mid_channels) ==
    IF mid_channels = 0 THEN in_channels * expand_ratio ELSE mid_channels

XPArgs ==
    [in_channels : 1..MaxChannels, out_channels : 1..MaxChannels,
     kernel : Kernels, expand_ratio : 1..MaxExpand,
     mid_channels : 0..MaxChannels]

NewXP(args) ==
    [pc |-> "init", args |-> args, feature_dim |-> 0, stage |-> 0,
     pairs |-> <<>>, dict |-> <<>>, depth_conv |-> <<>>, applied |-> <<>>]

StageChannels(x, stage) ==
    IF stage = 1 THEN x.feature_dim ELSE x.args.out_channels

\* XPLayer.__init__ up to the first list
XPLayerInit ==
    /\ xp.pc = "init"
    /\ LET fd == FeatureDim(xp.args.in_channels, xp.args.expand_ratio,
                            xp.args.mid_channels)
       IN xp' = [xp EXCEPT !.pc = "dict", !.feature_dim = fd, !.stage = 1,
                           !.pairs = depth_conv_module(
                                         fd, xp.args.out_channels,
                                         xp.args.kernel),
                           !.dict = <<>>]

\* OrderedDict(depth_conv_module_k): the next pair of the list
OrderedDictInsert ==
    /\ xp.pc = "dict"
    /\ xp.pairs # <<>>
    /\ xp' = [xp EXCEPT !.dict = OrderedDictPut(xp.dict, Head(xp.pairs)),
                        !.pairs = Tail(xp.pairs)]

\* self.depth_conv_k = Mo.Sequential(...), and the list of the next stage
SequentialBuilt ==
    /\ xp.pc = "dict"
    /\ xp.pairs = <<>>
    /\ IF xp.stage < 3
       THEN xp' = [xp EXCEPT !.depth_conv = Append(@, Sequential(xp.dict)),
                             !.stage = @ + 1,
                             !.pairs = depth_conv_module(
                                           StageChannels(xp, xp.stage + 1),
                                           xp.args.out_channels,
                                           xp.args.kernel),
                             !.dict = <<>>]
       ELSE xp' = [xp EXCEPT !.depth_conv = Append(@, Sequential(xp.dict)),
                             !.pc = "built", !.dict = <<>>]

\* XPLayer.call(x)
XPLayerCall ==
    /\ xp.pc = "built"
    /\ xp' = [xp EXCEPT !.pc = "call", !.stage = 1, !.applied = <<>>]

\* x = self.depth_conv_k(x)
XPLayerApply ==
    /\ xp.pc = "call"
    /\ xp.stage <= 3
    /\ xp' = [xp EXCEPT !.applied = @ \o xp.depth_conv[xp.stage],
                        !.stage = @ + 1]

\* return x
XPLayerReturn ==
    /\ xp.pc = "call"
    /\ xp.stage > 3
    /\ xp' = [xp EXCEPT !.pc = "returned"]

searcher_vars == <<cfg, pc, warm_epoch, cur_epoch, i, key, mb, weights,
                   net_grad, alpha, arch_grad, binding, training, graph,
                   train_pos, valid_pos, valid_data, rewards, grads, _reward,
                   log, steps, events>>

\* An XPLayer is constructed and called; no searcher runs.
InitXP ==
    /\ cfg = Config("darts", 0, 0, 0, <<1, 1>>, <<1, 1>>, 1, <<>>, "coarse", 1)
    /\ Constructed
    /\ xp \in {NewXP(a) : a \in XPArgs}

NextXP ==
    \/ XPLayerInit /\ UNCHANGED searcher_vars
    \/ OrderedDictInsert /\ UNCHANGED searcher_vars
    \/ SequentialBuilt /\ UNCHANGED searcher_vars
    \/ XPLayerCall /\ UNCHANGED searcher_vars
    \/ XPLayerApply /\ UNCHANGED searcher_vars
    \/ XPLayerReturn /\ UNCHANGED searcher_vars

SpecXP == InitXP /\ [][NextXP]_vars

(***************************************************************************)
(* XceptionBlock of contrib/classification/ofa_xception/modules.py.  A     *)
(* stride is what the caller hands over: the tuple (n, n), as the default  *)
(* (1, 1) is, or the integer n.                                            *)
(***************************************************************************)
TupleStride(n) == [kind |-> "tuple", n |-> n]
IntStride(n) == [kind |-> "int", n |-> n]
DefaultStride == TupleStride(1)
Strides == {TupleStride(n) : n \in 1..2} \cup {IntStride(n) : n \in 1..2}

\* stride != 1: a tuple never equals an integer
NotOne(stride) == ~(stride.kind = "int" /\ stride.n = 1)

ReLUOf(inplace) == [op |-> "ReLU", inplace |-> inplace]
SeparableConv(inc, outc) == [op |-> "SeparableConv", cin |-> inc, cout |-> outc]
MaxPool(stride) == [op |-> "MaxPool", stride |-> stride]

\* self.skip = None, and an attribute not assigned yet
NoModule == [op |-> "None"]
Unset == [op |-> "unset"]

\* expand_ratio = 0 stands for None
BlockArgs ==
    [in_channels : 1..MaxChannels, out_channels : 1..MaxChannels,
     reps : 1..MaxReps, stride : Strides, start_with_relu : BOOLEAN,
     grow_first : BOOLEAN, expand_ratio : 0..1, mid_channels : 1..MaxChannels]

NewBlock(args) ==
    [pc |-> "block_init", args |-> args, skip |-> Unset, skipbn |-> Unset,
     rep |-> <<>>, i |-> 0, added |-> "unset"]

\* inc, outc of repetition i (from 0)
RepChannels(a, n) ==
    IF a.grow_first
    THEN <<IF n = 0 THEN a.in_channels ELSE a.out_channels, a.out_channels>>
    ELSE <<a.in_channels,
           IF n < a.reps - 1 THEN a.in_channels ELSE a.out_channels>>

\* __init__: the skip path, rep = []
BlockInit ==
    /\ xp.pc = "block_init"
    /\ IF xp.args.out_channels # xp.args.in_channels \/ NotOne(xp.args.stride)
       THEN xp' = [xp EXCEPT !.pc = "block_rep",
                             !.skip = Conv(xp.args.in_channels,
                                           xp.args.out_channels),
                             !.skipbn = BatchNormalization(xp.args.out_channels)]
       ELSE xp' = [xp EXCEPT !.pc = "block_rep", !.skip = NoModule]

\* if expand_ratio is None: for i in range(reps): ReLU, SeparableConv
BlockRepeat ==
    /\ xp.pc = "block_rep"
    /\ xp.args.expand_ratio = 0
    /\ xp.i < xp.args.reps
    /\ LET c == RepChannels(xp.args, xp.i)
       IN xp' = [xp EXCEPT !.rep = @ \o <<ReLUOf(TRUE),
                                          SeparableConv(c[1], c[2])>>,
                           !.i = @ + 1]

\* elif reps == 3: the three pairs through mid_channels
BlockExpand ==
    /\ xp.pc = "block_rep"
    /\ xp.args.expand_ratio # 0
    /\ xp.args.reps = 3
    /\ xp.i = 0
    /\ LET a == xp.args
       IN xp' = [xp EXCEPT !.rep = <<ReLUOf(TRUE),
                                     SeparableConv(a.in_channels, a.mid_channels),
                                     ReLUOf(TRUE),
                                     SeparableConv(a.mid_channels, a.mid_channels),
                                     ReLUOf(TRUE),
                                     SeparableConv(a.mid_channels, a.out_channels)>>,
                           !.i = 3]

RepDone(x) ==
    IF x.args.expand_ratio = 0 THEN x.i >= x.args.reps
    ELSE x.args.reps # 3 \/ x.i = 3

\* if not start_with_relu: rep = rep[1:]; else: rep[0] = ReLU(inplace=False),
\* an IndexError on the empty list
BlockStart ==
    /\ xp.pc = "block_rep"
    /\ RepDone(xp)
    /\ IF ~xp.args.start_with_relu
       THEN xp' = [xp EXCEPT !.pc = "block_pool",
                             !.rep = IF @ = <<>> THEN <<>> ELSE Tail(@)]
       ELSE IF xp.rep = <<>>
       THEN xp' = [xp EXCEPT !.pc = "block_raised"]
       ELSE xp' = [xp EXCEPT !.pc = "block_pool",
                             !.rep = <<ReLUOf(FALSE)>> \o Tail(@)]

\* if stride != 1: rep.append(MaxPool(...)); self.rep = Mo.Sequential(*rep)
BlockPool ==
    /\ xp.pc = "block_pool"
    /\ xp' = [xp EXCEPT !.pc = "block_built",
                        !.rep = IF NotOne(xp.args.stride)
                                THEN Append(@, MaxPool(xp.args.stride))
                                ELSE @]

\* call(inp): x = self.rep(inp); x += self.skipbn(self.skip(inp)) or x += inp
BlockCall ==
    /\ xp.pc = "block_built"
    /\ xp' = [xp EXCEPT !.pc = "block_returned",
                        !.added = IF xp.skip # NoModule THEN "skipbn(skip(inp))"
                                  ELSE "inp"]

InitBlock ==
    /\ cfg = Config("darts", 0, 0, 0, <<1, 1>>, <<1, 1>>, 1, <<>>, "coarse", 1)
    /\ Constructed
    /\ xp \in {NewBlock(a) : a \in BlockArgs}

NextBlock ==
    \/ BlockInit /\ UNCHANGED searcher_vars
    \/ BlockRepeat /\ UNCHANGED searcher_vars
    \/ BlockExpand /\ UNCHANGED searcher_vars
    \/ BlockStart /\ UNCHANGED searcher_vars
    \/ BlockPool /\ UNCHANGED searcher_vars
    \/ BlockCall /\ UNCHANGED searcher_vars

SpecBlock == InitBlock /\ [][NextBlock]_vars

(***************************************************************************)
(* genotype2subnetlist and genotype2subnetlistXP of                        *)
(* contrib/classification/ofa_xception/modules.py.  None is 0.             *)
(***************************************************************************)
Candidate(ks, depth, expand_ratio) ==
    [ks |-> ks, depth |-> depth, expand_ratio |-> expand_ratio]

CANDIDATES ==
    [k \in {"XP1 3x3 1", "XP1 3x3 2", "XP1 3x3 3", "XP1 5x5 1", "XP1 5x5 2",
            "XP1 5x5 3", "XP1 7x7 1", "XP1 7x7 2", "XP1 7x7 3",
            "skip_connect"} |->
        CASE k = "XP1 3x3 1" -> Candidate(3, 1, 1)
          [] k = "XP1 3x3 2" -> Candidate(3, 2, 1)
          [] k = "XP1 3x3 3" -> Candidate(3, 3, 1)
          [] k = "XP1 5x5 1" -> Candidate(5, 1, 1)
          [] k = "XP1 5x5 2" -> Candidate(5, 2, 1)
          [] k = "XP1 5x5 3" -> Candidate(5, 3, 1)
          [] k = "XP1 7x7 1" -> Candidate(7, 1, 1)
          [] k = "XP1 7x7 2" -> Candidate(7, 2, 1)
          [] k = "XP1 7x7 3" -> Candidate(7, 3, 1)
          [] k = "skip_connect" -> Candidate(0, 0, 0)]

\* The lists of candidates the calls are made with.
OpCandidateLists ==
    { <<>>, <<"XP1 3x3 1">>, <<"XP1 5x5 2", "XP1 7x7 3">>,
      <<"skip_connect", "XP1 3x3 2">> }

\* The genotypes over a list: indices from 0 to its length, the last one
\* being the 'skip_connect' the call appends.
Genotypes(ops) ==
    UNION {[1..n -> 0..Len(ops)] : n \in 0..MaxGenotype}

NewGenotype(fn, ops, genotype) ==
    [pc |-> "geno_start", fn |-> fn, op_candidates |-> ops,
     genotype |-> genotype, subnet_list |-> <<>>, ks_list |-> <<>>,
     expand_ratio_list |-> <<>>, depth_list |-> <<>>, d |-> 0, i |-> 0]

\* op_candidates.append('skip_connect'); subnet_list, ks_list and
\* expand_ratio_list
GenotypeLists ==
    /\ xp.pc = "geno_start"
    /\ LET ops == Append(xp.op_candidates, "skip_connect")
           subnets == [k \in 1..Len(xp.genotype) |-> ops[xp.genotype[k] + 1]]
       IN xp' = [xp EXCEPT
                   !.pc = "geno_depth",
                   !.op_candidates = ops,
                   !.subnet_list = subnets,
                   !.ks_list =
                       [k \in 1..Len(subnets) |->
                           IF subnets[k] # "skip_connect"
                           THEN CANDIDATES[subnets[k]].ks ELSE 3],
                   !.expand_ratio_list =
                       [k \in 1..Len(subnets) |->
                           IF subnets[k] # "skip_connect"
                           THEN CANDIDATES[subnets[k]].expand_ratio ELSE 4]]

\* genotype2subnetlist: one iteration of for i, subnet in enumerate(subnet_list)
DepthStep ==
    /\ xp.pc = "geno_depth"
    /\ xp.fn = "genotype2subnetlist"
    /\ xp.i < Len(xp.subnet_list)
    /\ LET subnet == xp.subnet_list[xp.i + 1]
       IN IF subnet = "skip_connect"
          THEN IF xp.d > 1
               THEN xp' = [xp EXCEPT !.depth_list = Append(@, xp.d), !.d = 0,
                                     !.i = @ + 1]
               ELSE xp' = [xp EXCEPT !.i = @ + 1]
          ELSE IF xp.d = 4
          THEN xp' = [xp EXCEPT !.depth_list = Append(@, xp.d), !.d = 1,
                                !.i = @ + 1]
          ELSE IF xp.i = Len(xp.subnet_list) - 1
          THEN xp' = [xp EXCEPT !.depth_list = Append(@, xp.d + 1),
                                !.i = @ + 1]
          ELSE xp' = [xp EXCEPT !.d = @ + 1, !.i = @ + 1]

\* genotype2subnetlist: the loop is over
DepthDone ==
    /\ xp.pc = "geno_depth"
    /\ xp.fn = "genotype2subnetlist"
    /\ xp.i >= Len(xp.subnet_list)
    /\ xp' = [xp EXCEPT !.pc = "geno_assert"]

\* genotype2subnetlistXP: depth_list
DepthXP ==
    /\ xp.pc = "geno_depth"
    /\ xp.fn = "genotype2subnetlistXP"
    /\ xp' = [xp EXCEPT
                !.pc = "geno_assert",
                !.depth_list =
                    [k \in 1..Len(xp.subnet_list) |->
                        IF xp.subnet_list[k] # "skip_connect"
                        THEN CANDIDATES[xp.subnet_list[k]].depth ELSE 3]]

\* assert([... for d in depth_list]): the operand is the list, which is true
\* unless it is empty; then return
GenotypeAssert ==
    /\ xp.pc = "geno_assert"
    /\ xp' = [xp EXCEPT !.pc = IF xp.depth_list # <<>> THEN "geno_returned"
                               ELSE "geno_raised"]

InitGenotype ==
    /\ cfg = Config("darts", 0, 0, 0, <<1, 1>>, <<1, 1>>, 1, <<>>, "coarse", 1)
    /\ Constructed
    /\ xp \in {NewGenotype(fn, ops, g) :
                  fn \in {"genotype2subnetlist", "genotype2subnetlistXP"},
                  ops \in OpCandidateLists,
                  g \in UNION {Genotypes(o) : o \in OpCandidateLists}}
    /\ \A k \in 1..Len(xp.genotype) : xp.genotype[k] <= Len(xp.op_candidates)

NextGenotype ==
    \/ GenotypeLists /\ UNCHANGED searcher_vars
    \/ DepthStep /\ UNCHANGED searcher_vars
    \/ DepthDone /\ UNCHANGED searcher_vars
    \/ DepthXP /\ UNCHANGED searcher_vars
    \/ GenotypeAssert /\ UNCHANGED searcher_vars

SpecGenotype == InitGenotype /\ [][NextGenotype]_vars

(***************************************************************************)
(* Where run() is.                                                         *)
(***************************************************************************)
TrainPcs == {"train_sample", "train_zero_grad", "train_sync", "train_loop",
             "train_all_reduce", "train_update"}
ArchPcs == {"arch_sample", "arch_zero_grad", "arch_loop", "arch_update",
            "valid_fetch", "valid_sync", "valid_loop", "valid_grads",
            "valid_reward", "valid_all_reduce", "valid_update"}
InTrainStep == pc \in TrainPcs \cup {"train_done"}
InArchStep == pc \in ArchPcs \cup {"arch_done"}
WarmupSteps == cfg.warmup * cfg.one_epoch
InWarmup == pc \in {"warmup", "warmup_iter"} \/ (InTrainStep /\ key = "warmup")

(***************************************************************************)
(* C1: the first warmup * one_epoch steps are weight-update steps with      *)
(* key = 'warmup'; no architecture-update step and no weight-update step    *)
(* with key = 'train' begins before all of them are done; and the           *)
(* architecture parameters keep their initial values through the warmup.    *)
(***************************************************************************)
C1_WarmupFirst ==
    /\ ((InTrainStep \/ InArchStep) /\ steps.started <= WarmupSteps)
           => (InTrainStep /\ key = "warmup")
    /\ steps.started <= WarmupSteps
           => steps.warmup \in {steps.started - 1, steps.started}
    /\ InArchStep => steps.warmup = WarmupSteps
    /\ (InTrainStep /\ key = "train") => steps.warmup = WarmupSteps
    /\ (steps.train > 0 \/ steps.arch > 0) => steps.warmup = WarmupSteps
    /\ InWarmup => alpha = InitAlpha
    /\ pc = "epoch" => steps.warmup = WarmupSteps

C1_Witness ==
    /\ pc = "arch_done"
    /\ cfg.warmup >= 1
    /\ cfg.one_epoch >= 2
    /\ steps.warmup = WarmupSteps
    /\ steps.arch = 1

(***************************************************************************)
(* C2: in the main phase every iteration runs one weight-update step and    *)
(* then one architecture-update step: a weight update begins only when as   *)
(* many architecture updates as weight updates are done, an architecture    *)
(* update only when exactly one more weight update is done, and at the head *)
(* of iteration i of epoch e, e * one_epoch + i of each are done.           *)
(***************************************************************************)
C2_Alternation ==
    /\ (InTrainStep /\ key = "train" /\ pc # "train_done")
           => steps.train = steps.arch
    /\ (pc = "train_done" /\ key = "train") => steps.train = steps.arch + 1
    /\ (InArchStep /\ pc # "arch_done") => steps.train = steps.arch + 1
    /\ pc = "arch_done" => steps.train = steps.arch
    /\ pc = "iter" =>
           /\ steps.train = cur_epoch * cfg.one_epoch + i
           /\ steps.arch = cur_epoch * cfg.one_epoch + i
    /\ pc \in {"epoch", "finish", "done"} =>
           /\ steps.train = cur_epoch * cfg.one_epoch
           /\ steps.arch = cur_epoch * cfg.one_epoch

C2_Witness ==
    /\ pc = "arch_done"
    /\ cur_epoch = 1
    /\ steps.arch = 3
    /\ steps.train = 3

(***************************************************************************)
(* C3: a weight-update step calls zero_grad once, before the first          *)
(* micro-batch; runs forward and backward on exactly accum_train            *)
(* micro-batches, the gradient buffer holding at the end of the loop what   *)
(* zero_grad left plus every micro-batch's gradient; and calls update once, *)
(* after the last backward pass.                                            *)
(***************************************************************************)
C3_Accumulation ==
    InTrainStep =>
        /\ log.zero_grad = IF pc \in {"train_sample", "train_zero_grad"}
                           THEN 0 ELSE 1
        /\ log.forward = log.backward
        /\ log.backward <= accum_train
        /\ log.backward > 0 => log.zero_grad = 1
        /\ pc \in {"train_all_reduce", "train_update", "train_done"}
               => log.backward = accum_train
        /\ log.update = IF pc = "train_done" THEN 1 ELSE 0
        /\ pc \in {"train_loop", "train_all_reduce"}
               => net_grad = RAdd(log.base, log.sum)
        /\ (pc \in {"train_update", "train_done"} /\ ~Distributed)
               => /\ net_grad = RAdd(log.base, log.sum)
                  /\ log.sum = R(1)

C3_Witness ==
    /\ pc = "train_done"
    /\ key = "warmup"
    /\ accum_train = 2
    /\ log.backward = 2
    /\ log.update = 1

(***************************************************************************)
(* C4: in DartsSeacher.update_arch_step a backward pass of the validation   *)
(* loss has run for each of the accum_valid micro-batches when              *)
(* optimizer['valid'].update() is called.                                   *)
(***************************************************************************)
C4_ValidationBackward ==
    (cfg.searcher = "darts" /\ pc = "arch_update")
        => (log.forward = accum_valid /\ log.backward = accum_valid)

(***************************************************************************)
(* C5: in the ProxylessNAS searchers every forward pass runs on a graph     *)
(* sampled in its own step: the one sampled at the start of the             *)
(* weight-update step, or the one sampled for the reward evaluation (1 to   *)
(* n_iter) the pass belongs to.                                             *)
(***************************************************************************)
C5_FreshGraph ==
    cfg.searcher \in {"proxyless", "pnas"} =>
        /\ (InTrainStep /\ pc # "train_sample")
               => graph = <<steps.started, 0>>
        /\ (InTrainStep /\ log.forward > 0)
               => log.fwd_graph = <<steps.started, 0>>
        /\ (InArchStep /\ log.forward > 0)
               => /\ log.fwd_graph = <<steps.started, mb>>
                  /\ mb \in 1..n_iter
                  /\ log.forward = mb * accum_valid
                  /\ Len(rewards) = mb
        /\ pc \in {"valid_grads", "valid_reward", "valid_all_reduce",
                   "valid_update", "arch_done"} => mb = n_iter

C5_Witness ==
    /\ cfg.searcher \in {"proxyless", "pnas"}
    /\ pc = "valid_grads"
    /\ steps.started = 4
    /\ accum_valid = 2
    /\ log.fwd_graph = <<4, n_iter>>

(***************************************************************************)
(* C6: on a single process, when optimizer['valid'].update() is called in   *)
(* a ProxylessNAS architecture step the gradient of every architecture      *)
(* parameter j is (1/n_iter) * sum_i (r_i - b) * g_ij, b being the baseline *)
(* the step began with: nothing the buffer held before is part of it.       *)
(***************************************************************************)
EstimatorTerms(j, b) ==
    [k \in 1..Len(rewards) |-> RMul(RSub(rewards[k], b), grads[k][j])]

C6_Estimator ==
    (cfg.searcher \in {"proxyless", "pnas"} /\ cfg.n_procs = 1
         /\ pc = "valid_update")
        => /\ Len(rewards) = n_iter
           /\ Len(grads) = n_iter
           /\ \A j \in Arch :
                 arch_grad[j] =
                     RDivInt(RSum(EstimatorTerms(j, log.baseline)), n_iter)

C6_Witness ==
    /\ cfg.searcher \in {"proxyless", "pnas"}
    /\ cfg.n_procs = 1
    /\ pc = "valid_update"
    /\ log.baseline # R(0)
    /\ arch_grad[1] # R(0)
    /\ \E k, l \in 1..n_iter : rewards[k] # rewards[l] /\ grads[k] # grads[l]

(***************************************************************************)
(* C7: the baseline starts at 0; the gradient estimator of a step is formed *)
(* with the value the step began with, the baseline being overwritten only  *)
(* after that; and on a single process the step leaves                      *)
(* 0.9 * mean(rewards) + 0.1 * (previous value), which with several         *)
(* processes is the value handed to all_reduce.                             *)
(***************************************************************************)
MeanReward == RDivInt(RSum(rewards), n_iter)

MovingAverage(prev) ==
    RAdd(RDivInt(RMul(R(9), MeanReward), 10), RDivInt(prev, 10))

C7_Baseline ==
    /\ (steps.arch = 0 /\ ~InArchStep) => _reward[1] = R(0)
    /\ pc \in {"valid_fetch", "valid_sync", "valid_loop", "valid_grads"}
           => _reward[1] = log.baseline
    /\ (cfg.searcher = "proxyless" /\ pc \in {"valid_update", "valid_reward"})
           => _reward[1] = log.baseline
    /\ (cfg.searcher = "pnas"
            /\ pc \in {"valid_reward", "valid_all_reduce", "valid_update"})
           => \A j \in Arch :
                 (cfg.n_procs = 1 \/ pc # "valid_update") =>
                     arch_grad[j] =
                         RDivInt(RSum(EstimatorTerms(j, log.baseline)), n_iter)
    /\ pc = "valid_all_reduce" => _reward[1] = MovingAverage(log.baseline)
    /\ (cfg.searcher \in {"proxyless", "pnas"} /\ cfg.n_procs = 1
            /\ pc = "arch_done")
           => _reward[1] = MovingAverage(log.baseline)

C7_Witness ==
    /\ cfg.n_procs = 1
    /\ pc = "arch_done"
    /\ steps.arch = 2
    /\ log.baseline # R(0)
    /\ MeanReward # R(0)
    /\ _reward[1] # log.baseline

\* C7 as stated: after every architecture-update step the baseline is
\* 0.9 * mean(rewards of the step) + 0.1 * (its previous value).
C7_AsStated ==
    (cfg.searcher \in {"proxyless", "pnas"} /\ pc = "arch_done")
        => _reward[1] = MovingAverage(log.baseline)

C9_DisjointSplits ==
    /\ InTrainStep =>
           /\ log.valid_next = 0
           /\ log.train_next = mb
           /\ pc = "train_done" => log.train_next = accum_train
    /\ InArchStep =>
           /\ log.train_next = 0
           /\ log.valid_next <= accum_valid
           /\ pc \in {"arch_update", "arch_done", "valid_loop", "valid_grads",
                      "valid_reward", "valid_update"}
                  => log.valid_next = accum_valid
    /\ pc \in {"warmup_iter", "iter", "done"} =>
           /\ train_pos = (steps.warmup + steps.train) * accum_train
           /\ valid_pos = steps.arch * accum_valid

C9_Witness ==
    /\ pc = "arch_done"
    /\ cfg.warmup = 1
    /\ accum_train = 2
    /\ accum_valid = 1
    /\ steps.arch = 2
    /\ train_pos = 2 * (steps.warmup + 2)
    /\ valid_pos = 2

(***************************************************************************)
(* C10: on one process no step calls all_reduce or the event; on several,  *)
(* train_on_batch calls all_reduce once, after the last backward pass and   *)
(* before update, and valid_on_batch calls it after the estimator is formed *)
(* and before update.                                                       *)
(***************************************************************************)
C10_Calls ==
    /\ cfg.n_procs = 1 => (log.all_reduce = 0 /\ log.event = 0)
    /\ (Distributed /\ InTrainStep) =>
           /\ log.all_reduce = IF pc \in {"train_update", "train_done"}
                               THEN 1 ELSE 0
           /\ log.all_reduce > 0 => log.backward = accum_train
    /\ (Distributed /\ InArchStep) =>
           log.all_reduce = IF pc \in {"valid_update", "arch_done"}
                            THEN 2 ELSE 0

C10_Order ==
    log'.all_reduce > log.all_reduce =>
        /\ Distributed
        /\ log.update = 0
        /\ log'.update = 0
        /\ InTrainStep => log.backward = accum_train
        /\ InArchStep =>
               \A j \in Arch :
                   arch_grad[j] =
                       RDivInt(RSum(EstimatorTerms(j, log.baseline)), n_iter)

C10_Distributed == [](C10_Calls) /\ [][C10_Order]_vars

C10_Witness ==
    /\ Distributed
    /\ pc = "arch_done"
    /\ log.all_reduce = 2
    /\ log.update = 1
    /\ arch_grad[1] # R(0)

(***************************************************************************)
(* C11: in every weight-update step, the warmup steps with key = 'warmup'  *)
(* included, the optimizer[key] whose update() is called has been bound by *)
(* set_parameters to the network parameters before that update().          *)
(* runner/search.py never binds optimizer['warmup']: DartsSeacher binds    *)
(* optimizer['train'] once in callbacks_at_beginning, and                  *)
(* ProxylessNasSearcher.update_model_step(key) calls _sample_train_net()   *)
(* without the key.                                                        *)
(***************************************************************************)
C11_BoundBeforeUpdate ==
    pc = "train_update" => binding[key] = "net"

(***************************************************************************)
(* C12: accum_train * mbs_train = bs_train and accum_valid * mbs_valid =   *)
(* bs_valid for every configuration with 1 <= mbs <= bs, the accumulation  *)
(* counts being bs // mbs.  As stated it fails when mbs does not divide bs *)
(* (bs = 3, mbs = 2 gives accum = 1).  What holds: accum * mbs = bs -      *)
(* (bs mod mbs), which is bs exactly when mbs divides bs, and a step runs  *)
(* accum micro-batches of mbs samples, so the remainder is not processed.  *)
(***************************************************************************)
C12_AsStated ==
    /\ accum_train * cfg.mbs_train = cfg.bs_train
    /\ accum_valid * cfg.mbs_valid = cfg.bs_valid

C12_Accumulation ==
    /\ accum_train * cfg.mbs_train = cfg.bs_train - (cfg.bs_train % cfg.mbs_train)
    /\ accum_valid * cfg.mbs_valid = cfg.bs_valid - (cfg.bs_valid % cfg.mbs_valid)
    /\ accum_train >= 1 /\ accum_valid >= 1
    /\ pc = "train_update" =>
         log.backward * cfg.mbs_train
           = cfg.bs_train - (cfg.bs_train % cfg.mbs_train)
    /\ pc \in {"arch_update", "valid_update"} =>
         log.valid_next * cfg.mbs_valid
           = cfg.bs_valid - (cfg.bs_valid % cfg.mbs_valid)

C12_Witness ==
    /\ pc = "train_update"
    /\ cfg.bs_train % cfg.mbs_train # 0
    /\ cfg.bs_valid % cfg.mbs_valid = 0
    /\ log.backward = accum_train
    /\ log.backward * cfg.mbs_train < cfg.bs_train

(***************************************************************************)
(* C13: a weight-update step binds and updates only network parameters: it *)
(* leaves every architecture parameter and the baseline as they were.  An  *)
(* architecture-update step binds optimizer['valid'] only to architecture  *)
(* parameters, updates through it, and leaves the network weights as they  *)
(* were.                                                                   *)
(***************************************************************************)
C13_Step ==
    /\ pc \in TrainPcs =>
         /\ alpha' = alpha
         /\ _reward' = _reward
         /\ \A k \in OptKeys : binding'[k] \in {binding[k], "net"}
    /\ pc = "train_update" => binding[key] # "arch"
    /\ pc \in ArchPcs =>
         /\ weights' = weights
         /\ binding'["valid"] \in {binding["valid"], "arch"}
         /\ \A k \in OptKeys \ {"valid"} : binding'[k] = binding[k]
    /\ pc \in {"arch_update", "valid_update"} => binding["valid"] = "arch"

C13_Frame == [][C13_Step]_vars

C13_Witness ==
    /\ pc = "train_done"
    /\ steps.arch >= 1
    /\ log.update = 1
    /\ weights # R(0)
    /\ alpha # InitAlpha
    /\ arch_grad # ZeroGrad
    /\ _reward[1] # R(0)

(***************************************************************************)
(* C14: in runner/searcher/search.py, callback_on_epoch_end is called      *)
(* exactly once per main epoch, after the last train/valid iteration of    *)
(* the epoch and right before monitor.write(cur_epoch);                    *)
(* callback_on_finish exactly once, after the write of the last epoch and  *)
(* before monitor.close(); neither during warmup.  In runner/search.py     *)
(* save_output is called once per main epoch, after the last iteration and *)
(* before monitor.write.                                                   *)
(***************************************************************************)
EpochsEnded == events.write + (IF pc = "write" THEN 1 ELSE 0)

C14_Callbacks ==
    /\ events.write = cur_epoch
    /\ IF cfg.searcher = "pnas"
       THEN /\ events.epoch_end = EpochsEnded
            /\ events.save_output = 0
            /\ events.finish = IF pc \in {"close", "done"} THEN 1 ELSE 0
       ELSE /\ events.save_output = EpochsEnded
            /\ events.epoch_end = 0
            /\ events.finish = 0
    /\ pc = "write" =>
         /\ i = cfg.one_epoch
         /\ steps.train = (cur_epoch + 1) * cfg.one_epoch
         /\ steps.arch = (cur_epoch + 1) * cfg.one_epoch
         /\ events.last = IF cfg.searcher = "pnas" THEN "epoch_end"
                          ELSE "save_output"
    /\ (pc = "close" /\ cfg.searcher = "pnas") =>
         /\ events.last = "finish"
         /\ events.write = cfg.epoch
         /\ events.close = 0
    /\ InWarmup =>
         events.epoch_end = 0 /\ events.finish = 0 /\ events.save_output = 0

C14_Witness ==
    /\ pc = "close"
    /\ cfg.searcher = "pnas"
    /\ cfg.warmup = 1 /\ cfg.epoch = 2 /\ cfg.one_epoch = 2
    /\ events.epoch_end = 2
    /\ events.finish = 1

(***************************************************************************)
(* C15: for every warmup >= 0, epoch >= 0, one_epoch >= 0 and              *)
(* print_frequency >= 1, run() terminates, having run exactly              *)
(* (warmup + epoch) * one_epoch weight-update steps and epoch * one_epoch  *)
(* architecture-update steps; monitor.close() is called exactly once, as   *)
(* the last call on the monitor; with warmup = 0, optimizer['warmup'] is   *)
(* never accessed.                                                         *)
(***************************************************************************)
C15_Returned ==
    /\ pc = "done" =>
         /\ steps.warmup + steps.train = (cfg.warmup + cfg.epoch) * cfg.one_epoch
         /\ steps.warmup = cfg.warmup * cfg.one_epoch
         /\ steps.arch = cfg.epoch * cfg.one_epoch
         /\ steps.started = steps.warmup + steps.train + steps.arch
         /\ events.last = "close"
    /\ events.close = IF pc = "done" THEN 1 ELSE 0
    /\ cfg.warmup = 0 => (key # "warmup" /\ events.warmup_lr = 0)

C15_Termination == <>(pc = "done") /\ [](C15_Returned)

C15_Witness ==
    /\ pc = "done"
    /\ cfg.warmup = 1 /\ cfg.epoch = 2 /\ cfg.one_epoch = 2
    /\ cfg.print_frequency = 2
    /\ steps.warmup = 2 /\ steps.train = 4 /\ steps.arch = 4
    /\ events.display = 3

(***************************************************************************)
(* C16: in a ProxylessNAS architecture-update step the accum_valid         *)
(* validation micro-batches are taken once, before the first sample, and   *)
(* each of the n_iter samples is evaluated on exactly those micro-batches, *)
(* in the same order: a step takes accum_valid batches from                *)
(* dataloader['valid'], whatever n_iter is.                                *)
(***************************************************************************)
SamplingPcs == {"valid_sync", "valid_loop", "valid_grads", "valid_reward",
                "valid_all_reduce", "valid_update"}

C16_SameBatches ==
    pc \in SamplingPcs =>
        /\ log.valid_next = accum_valid
        /\ valid_pos = (steps.arch + 1) * accum_valid
        /\ valid_data = [k \in 1..accum_valid |-> steps.arch * accum_valid + k]
        /\ log.forward = mb * accum_valid
        /\ mb >= 1 => log.evaluated = valid_data

C16_Witness ==
    /\ pc = "valid_loop"
    /\ mb = n_iter
    /\ steps.arch = 1
    /\ accum_valid = 2
    /\ log.evaluated = <<3, 4>>
    /\ log.forward = 2 * n_iter

(***************************************************************************)
(* C17: with comm.n_procs > 1, all_reduce(division=True) being the mean    *)
(* over the processes, every process holds the same baseline after every   *)
(* completed valid_on_batch, whatever rewards each process saw: the        *)
(* baselines differ only between the local update of self._reward and its  *)
(* all_reduce.                                                             *)
(***************************************************************************)
C17_SharedBaseline ==
    (Distributed /\ pc # "valid_all_reduce") =>
        \A p, q \in 1..cfg.n_procs : _reward[p] = _reward[q]

C17_Witness ==
    /\ Distributed
    /\ pc = "arch_done"
    /\ steps.arch = 2
    /\ _reward[1] # MovingAverage(log.baseline)
    /\ _reward[1] # log.baseline
    /\ \A p \in 1..cfg.n_procs : _reward[p] = _reward[1]

(***************************************************************************)
(* C18: for both searchers of runner/search.py, whenever a weight-update   *)
(* step runs its forward/backward passes the last model.apply(training=..) *)
(* set True, and whenever an architecture-update step runs its forward     *)
(* passes the last call set False.  As stated it fails for DartsSeacher,   *)
(* whose update_model_step never calls model.apply: the last call before   *)
(* its passes is the training=False of _sample_search_net.  What holds:    *)
(* the weight-update steps of ProxylessNasSearcher run after training=True *)
(* and the architecture steps of both searchers after training=False; the  *)
(* weight-update steps of DartsSeacher run after training=False.           *)
(***************************************************************************)
C18_AsStated ==
    cfg.searcher \in {"darts", "proxyless"} =>
        /\ (InTrainStep /\ log.forward > 0) => log.mode = "True"
        /\ (InArchStep /\ log.forward > 0) => log.mode = "False"

C18_TrainingFlag ==
    /\ (cfg.searcher = "proxyless" /\ InTrainStep /\ log.forward > 0)
           => log.mode = "True"
    /\ (cfg.searcher \in {"darts", "proxyless"} /\ InArchStep /\ log.forward > 0)
           => log.mode = "False"
    /\ (cfg.searcher = "darts" /\ InTrainStep /\ log.forward > 0)
           => log.mode = "False"

C18_Witness ==
    /\ cfg.searcher = "proxyless"
    /\ pc = "train_update"
    /\ key = "train"
    /\ steps.arch >= 1
    /\ log.forward = 2
    /\ log.mode = "True"

(***************************************************************************)
(* C19: on a single process and with an empty regularizer,                 *)
(* update_arch_step of runner/search.py and valid_on_batch of              *)
(* runner/searcher/pnas.py are equivalent: in both, every reward is the    *)
(* mean of 1 - err over the micro-batches of its sample, and the step      *)
(* takes the architecture parameters alpha0 and the baseline b it began    *)
(* with to alpha0 - (1/n_iter) * sum_i (r_i - b) * g_i and to              *)
(* 0.9 * mean(r) + 0.1 * b: the same function of the errors, the sampled   *)
(* gradients, alpha0 and b, whichever of the two runs.                     *)
(***************************************************************************)
MeanAccuracy(errs) == RDivInt(RSub(R(Len(errs)), RSum(errs)), Len(errs))

AppliedGradient(j) == RDivInt(RSum(EstimatorTerms(j, log.baseline)), n_iter)

C19_Equivalent ==
    (cfg.searcher \in {"proxyless", "pnas"} /\ cfg.n_procs = 1
         /\ cfg.regularizer = <<>>)
        => /\ (pc = "valid_loop" /\ mb >= 1) =>
                  rewards[mb] = MeanAccuracy(log.errs)
           /\ pc = "arch_done" =>
                  /\ \A j \in Arch :
                        alpha[j] = RSub(log.alpha0[j], AppliedGradient(j))
                  /\ _reward[1] = MovingAverage(log.baseline)

C19_Witness ==
    /\ cfg.searcher \in {"proxyless", "pnas"}
    /\ cfg.n_procs = 1
    /\ cfg.regularizer = <<>>
    /\ pc = "arch_done"
    /\ steps.arch = 2
    /\ log.alpha0 # InitAlpha
    /\ alpha # log.alpha0
    /\ log.baseline # R(0)
    /\ _reward[1] # log.baseline
    /\ \E k, l \in 1..n_iter : rewards[k] # rewards[l]

(***************************************************************************)
(* C20: each of the three stages of XPLayer (depth_conv_1, depth_conv_2,   *)
(* depth_conv_3) is a Sequential that holds, and applies in this order,    *)
(* six modules: DwConv, BatchNormalization, ReLU, 1x1 Conv,                *)
(* BatchNormalization, ReLU.  The six pairs of each list carry the names   *)
(* 'conv', 'bn', 'act' twice, so the OrderedDict keeps three of them: the  *)
(* 1x1 Conv, the second BatchNormalization and the second ReLU.            *)
(***************************************************************************)
SixModules == <<"DwConv", "BatchNormalization", "ReLU",
                "Conv", "BatchNormalization", "ReLU">>

OpsOf(modules) == [n \in 1..Len(modules) |-> modules[n].op]

C20_SixModules ==
    /\ xp.pc \in {"built", "call", "returned"} =>
         \A k \in 1..3 :
            /\ OpsOf(xp.depth_conv[k]) = SixModules
            /\ xp.depth_conv[k][4].kernel = 1
    /\ xp.pc = "returned" =>
         OpsOf(xp.applied) = SixModules \o SixModules \o SixModules

(***************************************************************************)
(* C21: an XceptionBlock constructed with in_channels = out_channels and   *)
(* the default stride has the identity as its skip path (self.skip is None *)
(* and the input itself is added to the output of rep) and no MaxPool in   *)
(* rep; the 1x1 projection with its batch normalization and the MaxPool    *)
(* are there only when the channel counts differ or the block is strided.  *)
(* The default stride is the tuple (1, 1) and the code compares it with    *)
(* the integer 1, so stride != 1 holds for it.                             *)
(***************************************************************************)
HasMaxPool(modules) == \E n \in 1..Len(modules) : modules[n].op = "MaxPool"

C21_IdentitySkip ==
    xp.pc \in {"block_built", "block_returned"} =>
        /\ (xp.args.in_channels = xp.args.out_channels
                /\ xp.args.stride = DefaultStride)
              => /\ xp.skip = NoModule
                 /\ ~HasMaxPool(xp.rep)
                 /\ xp.pc = "block_returned" => xp.added = "inp"
        /\ (xp.skip # NoModule \/ HasMaxPool(xp.rep))
              => (xp.args.in_channels # xp.args.out_channels
                      \/ xp.args.stride.n # 1)

(***************************************************************************)
(* C22: for every genotype over the candidate indices, every entry of the  *)
(* depth_list genotype2subnetlist returns is greater than 1, as asserted   *)
(* before it returns: a genotype with an entry that is not fails with      *)
(* AssertionError and does not return.  The assertion is made of the list  *)
(* of comparisons, not of their conjunction: it fails on the empty list    *)
(* alone, and a genotype of a single candidate returns the depth 1.        *)
(***************************************************************************)
C22_DepthAsserted ==
    (xp.pc = "geno_returned" /\ xp.fn = "genotype2subnetlist")
        => \A k \in 1..Len(xp.depth_list) : xp.depth_list[k] > 1

(***************************************************************************)
(* C23: for every list op_candidates of keys of CANDIDATES and every       *)
(* genotype of indices in 0..len(op_candidates), genotype2subnetlistXP     *)
(* returns three lists of the length of the genotype, position k giving    *)
(* the ks, expand_ratio and depth of the candidate genotype[k] names, or   *)
(* 3, 4 and 3 for skip_connect; every depth returned is >= 1.  On the      *)
(* empty genotype the assertion, made of the empty list, fails and nothing *)
(* is returned.                                                            *)
(***************************************************************************)
Described(x, k) ==
    LET name == Append(x.op_candidates, "skip_connect")[x.genotype[k] + 1]
    IN IF name = "skip_connect"
       THEN /\ x.ks_list[k] = 3
            /\ x.expand_ratio_list[k] = 4
            /\ x.depth_list[k] = 3
       ELSE /\ x.ks_list[k] = CANDIDATES[name].ks
            /\ x.expand_ratio_list[k] = CANDIDATES[name].expand_ratio
            /\ x.depth_list[k] = CANDIDATES[name].depth

C23_SubnetListXP ==
    (xp.pc \in {"geno_returned", "geno_raised"}
         /\ xp.fn = "genotype2subnetlistXP")
        => /\ xp.pc = "geno_returned"
           /\ Len(xp.ks_list) = Len(xp.genotype)
           /\ Len(xp.expand_ratio_list) = Len(xp.genotype)
           /\ Len(xp.depth_list) = Len(xp.genotype)
           /\ \A k \in 1..Len(xp.genotype) :
                 Described([xp EXCEPT !.op_candidates =
                               SubSeq(@, 1, Len(@) - 1)], k)
           /\ \A k \in 1..Len(xp.depth_list) : xp.depth_list[k] >= 1

====
